---- MODULE Spec2Model ----
(***************************************************************************)
(* conf.py of the C++ Contracts Documentation: the configuration module    *)
(* that the documentation builder executes at start-up.  The model is the  *)
(* execution of the module, statement by statement, into a namespace, and  *)
(* the loads of it that one or several build invocations perform.          *)
(*                                                                         *)
(* A Python str is a sequence of one-character strings, so that a path or  *)
(* a URL can be inspected character by character.  Every Python value      *)
(* carries its type in the field "type".                                   *)
(***************************************************************************)
EXTENDS Integers, Sequences, FiniteSets, TLC

VARIABLES
    pc,           \* 0: no build is running; i in 1..NStmts: statement i runs next; NStmts + 1: loaded
    ns,           \* the namespace the module executes in: name -> value
    sys_modules,  \* the interpreter's cache of imported modules (process state)
    confdir,      \* the directory holding conf.py in the running build invocation
    loads,        \* the number of loads started so far
    builds,       \* the number of build invocations started so far
    prev          \* the record the previous completed load produced

vars == <<pc, ns, sys_modules, confdir, loads, builds, prev>>

\* The number of loads of the configuration a behaviour may start.
MaxLoads == 3

(***************************************************************************)
(* Python values.                                                          *)
(***************************************************************************)
Str(cs) == [type |-> "str", val |-> cs]
Bool(b) == [type |-> "bool", val |-> b]
None == [type |-> "NoneType"]
List(items) == [type |-> "list", val |-> items]
Tuple(items) == [type |-> "tuple", val |-> items]
\* A dict literal keeps its items in the order written: a sequence of <<key, value>>.
Dict(items) == [type |-> "dict", val |-> items]
Module(name) == [type |-> "module", val |-> name]

\* The namespace before any statement has run.
EmptyNs == [n \in {} |-> None]

\* ns after binding name to value (a rebinding replaces the earlier value).
Bind(space, name, value) ==
    [n \in (DOMAIN space) \cup {name} |-> IF n = name THEN value ELSE space[n]]

(***************************************************************************)
(* The directories a build invocation may find conf.py in.                 *)
(***************************************************************************)
Dirs ==
    { <<"/", "d", "o", "c", "s">>,
      <<"/", "s", "r", "v", "/", "s", "i", "t", "e">> }

NoDir == <<>>

\* The modules the import statements of conf.py name.
ModuleNames == {"sys", "os"}

(***************************************************************************)
(* The right-hand sides of the assignments, in file order.                 *)
(***************************************************************************)
\* 'C++ Contracts Documentation'
project ==
    Str(<<"C", "+", "+", " ", "C", "o", "n", "t", "r", "a", "c", "t", "s", " ",
          "D", "o", "c", "u", "m", "e", "n", "t", "a", "t", "i", "o", "n">>)

\* '2025, EFCS LLC'
copyright ==
    Str(<<"2", "0", "2", "5", ",", " ", "E", "F", "C", "S", " ", "L", "L", "C">>)

\* 'Eric Fiselier'
author ==
    Str(<<"E", "r", "i", "c", " ", "F", "i", "s", "e", "l", "i", "e", "r">>)

\* '1.0'
release ==
    Str(<<"1", ".", "0">>)

\* ['sphinx.ext.intersphinx', 'sphinx.ext.todo', 'sphinx.ext.autodoc']
extensions_extra ==
    List(<< Str(<<"s", "p", "h", "i", "n", "x", ".", "e", "x", "t", ".",
                  "i", "n", "t", "e", "r", "s", "p", "h", "i", "n", "x">>),
            Str(<<"s", "p", "h", "i", "n", "x", ".", "e", "x", "t", ".",
                  "t", "o", "d", "o">>),
            Str(<<"s", "p", "h", "i", "n", "x", ".", "e", "x", "t", ".",
                  "a", "u", "t", "o", "d", "o", "c">>) >>)

\* ['sphinx.ext.intersphinx']
extensions_no_todo ==
    List(<< Str(<<"s", "p", "h", "i", "n", "x", ".", "e", "x", "t", ".",
                  "i", "n", "t", "e", "r", "s", "p", "h", "i", "n", "x">>) >>)

\* ['sphinx.ext.intersphinx', 'sphinx.ext.todo']
extensions ==
    List(<< Str(<<"s", "p", "h", "i", "n", "x", ".", "e", "x", "t", ".",
                  "i", "n", "t", "e", "r", "s", "p", "h", "i", "n", "x">>),
            Str(<<"s", "p", "h", "i", "n", "x", ".", "e", "x", "t", ".",
                  "t", "o", "d", "o">>) >>)

\* [os.path.join(<directory of conf.py>, '_templates')]: an entry computed from the location
templates_path_abs ==
    List(<< Str(confdir \o <<"/", "_", "t", "e", "m", "p", "l", "a", "t", "e", "s">>) >>)

\* ['../_templates']
templates_path_parent ==
    List(<< Str(<<".", ".", "/", "_", "t", "e", "m", "p", "l", "a", "t", "e", "s">>) >>)

\* ['_templates']
templates_path ==
    List(<< Str(<<"_", "t", "e", "m", "p", "l", "a", "t", "e", "s">>) >>)

\* ['_build', 'Thumbs.db', '.DS_Store']
exclude_patterns ==
    List(<< Str(<<"_", "b", "u", "i", "l", "d">>),
            Str(<<"T", "h", "u", "m", "b", "s", ".", "d", "b">>),
            Str(<<".", "D", "S", "_", "S", "t", "o", "r", "e">>) >>)

\* 'friendly'
pygments_style ==
    Str(<<"f", "r", "i", "e", "n", "d", "l", "y">>)

\* 'haiku'
html_theme ==
    Str(<<"h", "a", "i", "k", "u">>)

\* ['_static']
html_static_path ==
    List(<< Str(<<"_", "s", "t", "a", "t", "i", "c">>) >>)

\* {'nosidebar': 'False'}
html_theme_options_str ==
    Dict(<< << Str(<<"n", "o", "s", "i", "d", "e", "b", "a", "r">>),
               Str(<<"F", "a", "l", "s", "e">>) >> >>)

\* {'nosidebar': False}
html_theme_options ==
    Dict(<< << Str(<<"n", "o", "s", "i", "d", "e", "b", "a", "r">>), Bool(FALSE) >> >>)

\* ['_themes']
html_theme_path ==
    List(<< Str(<<"_", "t", "h", "e", "m", "e", "s">>) >>)

\* True
html_show_sourcelink ==
    Bool(TRUE)

\* True
html_show_sphinx ==
    Bool(TRUE)

\* {'python': ('https://docs.python.org/3/', None), 'llvm': ('https://llvm.org/docs/',)}
intersphinx_mapping_short ==
    Dict(<< << Str(<<"p", "y", "t", "h", "o", "n">>),
               Tuple(<< Str(<<"h", "t", "t", "p", "s", ":", "/", "/", "d", "o", "c", "s", ".",
                              "p", "y", "t", "h", "o", "n", ".", "o", "r", "g", "/", "3", "/">>),
                        None >>) >>,
            << Str(<<"l", "l", "v", "m">>),
               Tuple(<< Str(<<"h", "t", "t", "p", "s", ":", "/", "/", "l", "l", "v", "m", ".",
                              "o", "r", "g", "/", "d", "o", "c", "s", "/">>) >>) >> >>)

\* {'python': ('https://docs.python.org/3/', None), 'llvm': ('https://llvm.org/docs/', None)}
intersphinx_mapping ==
    Dict(<< << Str(<<"p", "y", "t", "h", "o", "n">>),
               Tuple(<< Str(<<"h", "t", "t", "p", "s", ":", "/", "/", "d", "o", "c", "s", ".",
                              "p", "y", "t", "h", "o", "n", ".", "o", "r", "g", "/", "3", "/">>),
                        None >>) >>,
            << Str(<<"l", "l", "v", "m">>),
               Tuple(<< Str(<<"h", "t", "t", "p", "s", ":", "/", "/", "l", "l", "v", "m", ".",
                              "o", "r", "g", "/", "d", "o", "c", "s", "/">>),
                        None >>) >> >>)

\* True
todo_include_todos ==
    Bool(TRUE)

(***************************************************************************)
(* The statements of the module, in file order.                            *)
(***************************************************************************)
\* import m
Import(m) == [kind |-> "import", target |-> m, value |-> Module(m)]

\* the statement with the option name misspelled in one place: relaese = ...
Assign_typo(t, v) ==
    [kind |-> "assign", target |-> IF t = "release" THEN "relaese" ELSE t, value |-> v]

\* the statement as an augmented assignment in one place: extensions += ...
Assign_aug(t, v) ==
    [kind |-> IF t = "extensions" THEN "augassign" ELSE "assign", target |-> t, value |-> v]

\* t = v
Assign(t, v) == [kind |-> "assign", target |-> t, value |-> v]

Stmts ==
    << Import("sys"),
       Import("os"),
       Assign("project", project),
       Assign("copyright", copyright),
       Assign("author", author),
       Assign("release", release),
       Assign("extensions", extensions),
       Assign("templates_path", templates_path),
       Assign("exclude_patterns", exclude_patterns),
       Assign("pygments_style", pygments_style),
       Assign("html_theme", html_theme),
       Assign("html_static_path", html_static_path),
       Assign("html_theme_options", html_theme_options),
       Assign("html_theme_path", html_theme_path),
       Assign("html_show_sourcelink", html_show_sourcelink),
       Assign("html_show_sphinx", html_show_sphinx),
       Assign("intersphinx_mapping", intersphinx_mapping),
       Assign("todo_include_todos", todo_include_todos) >>

NStmts == Len(Stmts)

Loaded == pc = NStmts + 1

(***************************************************************************)
(* The state machine.                                                      *)
(***************************************************************************)
Init ==
    /\ pc = 0
    /\ ns = EmptyNs
    /\ sys_modules = {}
    /\ confdir = NoDir
    /\ loads = 0
    /\ builds = 0
    /\ prev = EmptyNs

\* A build invocation starts: a new process, which finds conf.py in some directory
\* and may have imported any of the modules already, executes it in a fresh namespace.
StartBuild ==
    /\ pc = 0
    /\ loads < MaxLoads
    /\ \E d \in Dirs, m \in SUBSET ModuleNames :
          /\ confdir' = d
          /\ sys_modules' = m
    /\ ns' = EmptyNs
    /\ pc' = 1
    /\ loads' = loads + 1
    /\ builds' = builds + 1
    /\ UNCHANGED prev

\* import m: the module is taken from, or entered into, the cache and bound to its name.
ExecImport ==
    /\ pc \in 1..NStmts
    /\ Stmts[pc].kind = "import"
    /\ sys_modules' = sys_modules \cup {Stmts[pc].value.val}
    /\ ns' = Bind(ns, Stmts[pc].target, Stmts[pc].value)
    /\ pc' = pc + 1
    /\ UNCHANGED <<confdir, loads, builds, prev>>

\* t = v: the value of the right-hand side is bound to the target.
ExecAssign ==
    /\ pc \in 1..NStmts
    /\ Stmts[pc].kind = "assign"
    /\ ns' = Bind(ns, Stmts[pc].target, Stmts[pc].value)
    /\ pc' = pc + 1
    /\ UNCHANGED <<sys_modules, confdir, loads, builds, prev>>

\* The running build invocation loads conf.py once more, in a fresh namespace.
Reload ==
    /\ Loaded
    /\ loads < MaxLoads
    /\ prev' = ns
    /\ ns' = EmptyNs
    /\ pc' = 1
    /\ loads' = loads + 1
    /\ UNCHANGED <<sys_modules, confdir, builds>>

\* The build invocation completes and its process ends.
EndBuild ==
    /\ Loaded
    /\ prev' = ns
    /\ ns' = EmptyNs
    /\ sys_modules' = {}
    /\ confdir' = NoDir
    /\ pc' = 0
    /\ UNCHANGED <<loads, builds>>

Next ==
    \/ StartBuild
    \/ ExecImport
    \/ ExecAssign
    \/ Reload
    \/ EndBuild

Spec == Init /\ [][Next]_vars

TypeOK ==
    /\ pc \in 0..(NStmts + 1)
    /\ loads \in 0..MaxLoads
    /\ builds \in 0..loads
    /\ sys_modules \subseteq ModuleNames
    /\ confdir \in Dirs \cup {NoDir}

(***************************************************************************)
(* Paths: an entry of a path-valued option is resolved by joining it to a  *)
(* directory and normalising the result.                                   *)
(***************************************************************************)
IsAbsolute(p) == Len(p) > 0 /\ p[1] = "/"

\* The directory and the entry joined: an absolute entry replaces the directory.
Join(dir, p) ==
    IF IsAbsolute(p) THEN p
    ELSE IF Len(dir) > 0 /\ dir[Len(dir)] = "/" THEN dir \o p
    ELSE dir \o <<"/">> \o p

\* The components of p between its "/" separators, in order.
RECURSIVE SplitFrom(_, _, _)
SplitFrom(p, i, cur) ==
    IF i > Len(p) THEN <<cur>>
    ELSE IF p[i] = "/" THEN <<cur>> \o SplitFrom(p, i + 1, <<>>)
    ELSE SplitFrom(p, i + 1, Append(cur, p[i]))

Split(p) == SplitFrom(p, 1, <<>>)

\* The components normalised: "" and "." dropped, ".." removing the component before
\* it (and nothing at the root).
RECURSIVE NormFrom(_, _, _)
NormFrom(parts, i, out) ==
    IF i > Len(parts) THEN out
    ELSE IF parts[i] = <<>> \/ parts[i] = <<".">> THEN NormFrom(parts, i + 1, out)
    ELSE IF parts[i] = <<".", ".">>
         THEN NormFrom(parts, i + 1, IF Len(out) > 0 THEN SubSeq(out, 1, Len(out) - 1) ELSE out)
    ELSE NormFrom(parts, i + 1, Append(out, parts[i]))

Norm(p) == NormFrom(Split(p), 1, <<>>)

\* The components of the path that entry p names when resolved from dir.
Resolve(dir, p) == Norm(Join(dir, p))

\* parts names a path strictly inside base.
IsInside(parts, base) ==
    /\ Len(parts) > Len(base)
    /\ SubSeq(parts, 1, Len(base)) = base

(***************************************************************************)
(* The interface of the consuming tool: the option names it recognizes and *)
(* the type of value each accepts.                                         *)
(***************************************************************************)
StringOptions == {"project", "author", "copyright", "release", "html_theme", "pygments_style"}

PathOptions == {"templates_path", "html_static_path", "html_theme_path", "exclude_patterns"}

StringListOptions == {"extensions"} \cup PathOptions

BoolOptions == {"html_show_sourcelink", "html_show_sphinx", "todo_include_todos"}

Recognized ==
    StringOptions \cup StringListOptions \cup BoolOptions
        \cup {"html_theme_options", "intersphinx_mapping"}

IsStr(v) == v.type = "str"

IsBool(v) == v.type = "bool"

IsStrList(v) ==
    /\ v.type = "list"
    /\ \A i \in 1..Len(v.val) : IsStr(v.val[i])

\* A mapping whose keys are strings and whose values are all booleans.
IsBoolMapping(v) ==
    /\ v.type = "dict"
    /\ \A i \in 1..Len(v.val) : IsStr(v.val[i][1]) /\ IsBool(v.val[i][2])

\* A mapping whose keys are strings and whose values are all pairs.
IsPairMapping(v) ==
    /\ v.type = "dict"
    /\ \A i \in 1..Len(v.val) :
          /\ IsStr(v.val[i][1])
          /\ v.val[i][2].type = "tuple"
          /\ Len(v.val[i][2].val) = 2

HasOptionType(name, v) ==
    IF name \in StringOptions THEN IsStr(v)
    ELSE IF name \in StringListOptions THEN IsStrList(v)
    ELSE IF name \in BoolOptions THEN IsBool(v)
    ELSE IF name = "html_theme_options" THEN IsBoolMapping(v)
    ELSE IF name = "intersphinx_mapping" THEN IsPairMapping(v)
    ELSE FALSE

\* The value a dict holds under key, and whether it holds one.
HasKey(d, key) == \E i \in 1..Len(d.val) : d.val[i][1] = key

Lookup(d, key) == d.val[CHOOSE i \in 1..Len(d.val) : d.val[i][1] = key][2]

\* The items of a list, as a set.
Items(l) == {l.val[i] : i \in 1..Len(l.val)}

Bound(name) == name \in DOMAIN ns

\* A value written as a literal: a string, a boolean, None, or a list, tuple or dict of literals.
RECURSIVE IsLiteral(_)
IsLiteral(v) ==
    CASE v.type \in {"str", "bool", "NoneType"} -> TRUE
      [] v.type \in {"list", "tuple"} -> \A i \in 1..Len(v.val) : IsLiteral(v.val[i])
      [] v.type = "dict" ->
            \A i \in 1..Len(v.val) : IsLiteral(v.val[i][1]) /\ IsLiteral(v.val[i][2])
      [] OTHER -> FALSE

\* A statement that assigns a literal to a recognized option name.
IsStaticAssignment(s) ==
    /\ s.kind = "assign"
    /\ s.target \in Recognized
    /\ IsLiteral(s.value)

\* 'sphinx.ext.intersphinx'
IntersphinxExt ==
    Str(<<"s", "p", "h", "i", "n", "x", ".", "e", "x", "t", ".",
          "i", "n", "t", "e", "r", "s", "p", "h", "i", "n", "x">>)

\* 'sphinx.ext.todo'
TodoExt ==
    Str(<<"s", "p", "h", "i", "n", "x", ".", "e", "x", "t", ".", "t", "o", "d", "o">>)

\* 'nosidebar'
NoSidebar ==
    Str(<<"n", "o", "s", "i", "d", "e", "b", "a", "r">>)

(***************************************************************************)
(* The claims.                                                             *)
(***************************************************************************)

\* C1 as stated: every name bound by loading conf.py belongs to the recognized
\* vocabulary; no name outside the vocabulary is present in the loaded record.
C1_AllNamesRecognized ==
    \A n \in DOMAIN ns : n \in Recognized

\* C1 as amended: every name bound by loading conf.py belongs to the recognized
\* vocabulary, except sys and os, which the two import statements bind to modules.
C1_NamesRecognizedOrImported ==
    \A n \in DOMAIN ns :
        \/ n \in Recognized
        \/ n \in {"sys", "os"} /\ ns[n].type = "module"

C1_Witness ==
    /\ Loaded
    /\ Bound("sys") /\ Bound("os")
    /\ Recognized \subseteq DOMAIN ns

\* C2: every entry of intersphinx_mapping maps a short name to a pair of a non-empty
\* base-URL string and an inventory path or None; no entry has another arity or an
\* empty base URL.
C2_IntersphinxEntriesArePairs ==
    Bound("intersphinx_mapping") =>
        LET m == ns["intersphinx_mapping"] IN
        /\ m.type = "dict"
        /\ \A i \in 1..Len(m.val) :
              LET key == m.val[i][1]
                  target == m.val[i][2]
              IN  /\ IsStr(key)
                  /\ target.type = "tuple"
                  /\ Len(target.val) = 2
                  /\ IsStr(target.val[1])
                  /\ Len(target.val[1].val) > 0
                  /\ (target.val[2] = None \/ IsStr(target.val[2]))

C2_Witness ==
    /\ Bound("intersphinx_mapping")
    /\ Len(ns["intersphinx_mapping"].val) > 1

\* C3: a load of conf.py that follows another one, in the same build invocation or in
\* a separate one, yields the same record, name for name and value for value.
C3_ReloadYieldsSameRecord ==
    (Loaded /\ loads > 1) => ns = prev

C3_Witness ==
    /\ Loaded
    /\ loads > builds
    /\ builds > 1
    /\ prev # EmptyNs

\* C5: every option in the record has a value of the type the interface assigns to
\* its name.
C5_OptionsHaveInterfaceTypes ==
    \A n \in (DOMAIN ns) \cap Recognized : HasOptionType(n, ns[n])

C5_Witness ==
    /\ Recognized \subseteq DOMAIN ns
    /\ ns["html_theme_options"].type = "dict"
    /\ Len(ns["html_theme_options"].val) > 0

C7_EveryStatementStaticAssignment ==
    pc \in 1..NStmts => IsStaticAssignment(Stmts[pc])

\* C7 as amended: every statement of conf.py is a static assignment of a literal to a
\* recognized option name, except the two leading statements, which import sys and os.
C7_StaticAssignmentsAfterImports ==
    pc \in 1..NStmts =>
        \/ IsStaticAssignment(Stmts[pc])
        \/ /\ pc \in 1..2
           /\ Stmts[pc].kind = "import"
           /\ Stmts[pc].target \in {"sys", "os"}

C7_Witness ==
    /\ pc = NStmts
    /\ Bound("sys") /\ Bound("os")
    /\ Bound("intersphinx_mapping")

C10_ExtensionOptionsHaveOwner ==
    /\ Bound("intersphinx_mapping") =>
          Bound("extensions") /\ IntersphinxExt \in Items(ns["extensions"])
    /\ Bound("todo_include_todos") =>
          Bound("extensions") /\ TodoExt \in Items(ns["extensions"])

C10_Witness ==
    /\ Bound("intersphinx_mapping")
    /\ Bound("todo_include_todos")
    /\ Bound("extensions")
====
